---- MODULE Spec2Model ----
(***************************************************************************)
(* Max Profit Problem: findMaxProfit(n) of maxProfit.js as a state         *)
(* machine.  One behaviour is one call of findMaxProfit with horizon n.    *)
(* The DP loop, the max pass and the collection pass advance one loop      *)
(* iteration per step; the sort and the return are one step.               *)
(***************************************************************************)
EXTENDS Integers, Sequences, FiniteSets, TLC

\* Largest horizon explored with the exhaustive oracle.
MaxN == 21
\* Negative horizons explored: -MaxNeg .. -1.
MaxNeg == 3

VARIABLES n, pc, dp, time, bIdx, maxProfit, i, allSolutions, seenCounts, result

vars == <<n, pc, dp, time, bIdx, maxProfit, i, allSolutions, seenCounts, result>>

-----------------------------------------------------------------------------
(* The catalog, maxProfit.js:13-17 and 62-66 *)

BUILDING_TYPES ==
  [ THEATRE    |-> [time |-> 5,  earnings |-> 1500, name |-> "T"],
    PUB        |-> [time |-> 4,  earnings |-> 1000, name |-> "P"],
    COMMERCIAL |-> [time |-> 10, earnings |-> 2000, name |-> "C"] ]

buildings ==
  << BUILDING_TYPES.THEATRE, BUILDING_TYPES.PUB, BUILDING_TYPES.COMMERCIAL >>

-----------------------------------------------------------------------------
(* Pure helpers *)

\* calculateProfit(sequence, totalTime): the loop of lines 29-37, with its
\* break at the first building that overruns totalTime.
RECURSIVE calculateProfitFrom(_, _, _, _)
calculateProfitFrom(sequence, totalTime, currentTime, totalProfit) ==
  IF sequence = <<>> THEN totalProfit
  ELSE LET building == Head(sequence)
           nextTime == currentTime + building.time
       IN IF nextTime > totalTime
            THEN totalProfit
            ELSE calculateProfitFrom(Tail(sequence), totalTime, nextTime,
                   totalProfit + (totalTime - nextTime) * building.earnings)

calculateProfit(sequence, totalTime) ==
  calculateProfitFrom(sequence, totalTime, 0, 0)

\* countBuildings(sequence): counts[building.name]++ for each building.
RECURSIVE countBuildings(_)
countBuildings(sequence) ==
  IF sequence = <<>> THEN [T |-> 0, P |-> 0, C |-> 0]
  ELSE LET rest == countBuildings(Tail(sequence))
           name == Head(sequence).name
       IN [T |-> rest.T + (IF name = "T" THEN 1 ELSE 0),
           P |-> rest.P + (IF name = "P" THEN 1 ELSE 0),
           C |-> rest.C + (IF name = "C" THEN 1 ELSE 0)]

\* A plausible slip: the key is the number of buildings, not the profile.
countsKeyByTotal(counts) == ToString(counts.T + counts.P + counts.C)

\* `${counts.T},${counts.P},${counts.C}`
countsKey(counts) ==
  ToString(counts.T) \o "," \o ToString(counts.P) \o "," \o ToString(counts.C)

\* A plausible slip: the operational time counted from the start of the build.
buildingProfitFromStart(horizon, startTime, building) ==
  (horizon - startTime) * building.earnings

\* operationalTime * building.earnings, with finishTime = time + buildTime
buildingProfit(horizon, startTime, building) ==
  (horizon - (startTime + building.time)) * building.earnings

\* A plausible slip: a build that ends exactly at the horizon is refused.
fitsStrictly(horizon, finishTime) == finishTime < horizon

\* if (finishTime <= n)
fits(horizon, finishTime) == finishTime <= horizon

\* Plausible slips: the first candidate is kept / every candidate is stored.
shouldUpdateFirstOnly(stored, totalProfit) == stored.profit < 0
shouldUpdateAlways(stored, totalProfit) == TRUE

\* if (dp[finishTime].profit < 0 || totalProfit > dp[finishTime].profit)
shouldUpdate(stored, totalProfit) ==
  stored.profit < 0 \/ totalProfit > stored.profit

\* The inner loop over j < n of lines 141-147.
hasOtherSolutions(table, best, horizon) ==
  \E j \in 0..(horizon - 1) :
    table[j].profit = best /\ Len(table[j].sequence) > 0

\* A plausible slip: lower finish time first.
compareAscending(a, b, horizon) ==
  IF a.finishTime < horizon /\ b.finishTime = horizon THEN -1
  ELSE IF a.finishTime = horizon /\ b.finishTime < horizon THEN 1
  ELSE a.finishTime - b.finishTime

\* The comparator of allSolutions.sort, lines 168-172.
compare(a, b, horizon) ==
  IF a.finishTime < horizon /\ b.finishTime = horizon THEN -1
  ELSE IF a.finishTime = horizon /\ b.finishTime < horizon THEN 1
  ELSE b.finishTime - a.finishTime

\* Array.prototype.sort is stable: an element goes after every element that
\* does not compare greater than it.
RECURSIVE insertSorted(_, _, _)
insertSorted(e, sorted, horizon) ==
  IF sorted = <<>> THEN <<e>>
  ELSE IF compare(e, Head(sorted), horizon) < 0
         THEN <<e>> \o sorted
         ELSE <<Head(sorted)>> \o insertSorted(e, Tail(sorted), horizon)

\* A plausible slip: the list is left in collection order.
sortOmitted(list, horizon) == list

RECURSIVE sort(_, _)
sort(list, horizon) ==
  IF list = <<>> THEN <<>>
  ELSE insertSorted(list[Len(list)],
                    sort(SubSeq(list, 1, Len(list) - 1), horizon), horizon)

NoResult == [kind |-> "none"]

Horizons == (0 - MaxNeg)..MaxN

\* The horizons of the documented scenarios (README.md:98-105, lines 241-293).
ScenarioHorizons == {0, 3, 7, 8, 13, 49}

-----------------------------------------------------------------------------
(* The state machine *)

InitWith(H) ==
  /\ n \in H
  /\ pc = "start"
  /\ dp = <<>>
  /\ time = 0
  /\ bIdx = 1
  /\ maxProfit = -1
  /\ i = 0
  /\ allSolutions = <<>>
  /\ seenCounts = {}
  /\ result = NoResult

Init == InitWith(Horizons)

\* new Array(n + 1) throws RangeError when n + 1 < 0 (line 70).
AllocThrow ==
  /\ pc = "start"
  /\ n + 1 < 0
  /\ pc' = "error"
  /\ UNCHANGED <<n, dp, time, bIdx, maxProfit, i, allSolutions, seenCounts, result>>

\* Lines 70-76: the table filled with the sentinel, then dp[0] set; for
\* n = -1 the array has length 0 and the assignment of dp[0] extends it.
Alloc ==
  /\ pc = "start"
  /\ n + 1 >= 0
  /\ dp' = [t \in 0..(IF n < 0 THEN 0 ELSE n) |->
              IF t = 0 THEN [profit |-> 0, sequence |-> <<>>]
                       ELSE [profit |-> -1, sequence |-> <<>>]]
  /\ time' = 0
  /\ bIdx' = 1
  /\ pc' = "dp"
  /\ UNCHANGED <<n, maxProfit, i, allSolutions, seenCounts, result>>

\* Lines 82-84: an unreached finish time is skipped.
DPSkip ==
  /\ pc = "dp"
  /\ time <= n
  /\ dp[time].profit < 0
  /\ time' = time + 1
  /\ UNCHANGED <<n, pc, dp, bIdx, maxProfit, i, allSolutions, seenCounts, result>>

\* Lines 87-105: one iteration of the loop over the buildings.
DPStep ==
  /\ pc = "dp"
  /\ time <= n
  /\ dp[time].profit >= 0
  /\ LET building == buildings[bIdx]
         finishTime == time + building.time
         totalProfit == dp[time].profit + buildingProfit(n, time, building)
     IN dp' = IF fits(n, finishTime) /\ shouldUpdate(dp[finishTime], totalProfit)
                THEN [dp EXCEPT ![finishTime] =
                        [profit |-> totalProfit,
                         sequence |-> Append(dp[time].sequence, building)]]
                ELSE dp
  /\ IF bIdx < Len(buildings)
       THEN bIdx' = bIdx + 1 /\ time' = time
       ELSE bIdx' = 1 /\ time' = time + 1
  /\ UNCHANGED <<n, pc, maxProfit, i, allSolutions, seenCounts, result>>

\* Line 80 false: the DP loop ends; lines 109-112 start the max pass.
DPDone ==
  /\ pc = "dp"
  /\ time > n
  /\ maxProfit' = -1
  /\ i' = 0
  /\ pc' = "max"
  /\ UNCHANGED <<n, dp, time, bIdx, allSolutions, seenCounts, result>>

\* Lines 112-116: one iteration of the max pass.
MaxStep ==
  /\ pc = "max"
  /\ i <= n
  /\ maxProfit' = IF dp[i].profit > maxProfit THEN dp[i].profit ELSE maxProfit
  /\ i' = i + 1
  /\ UNCHANGED <<n, pc, dp, time, bIdx, allSolutions, seenCounts, result>>

\* Lines 119-127: no entry was scanned, the empty result is returned.
ReturnEmpty ==
  /\ pc = "max"
  /\ i > n
  /\ maxProfit < 0
  /\ maxProfit' = 0
  /\ result' = [kind |-> "result", profit |-> 0,
                counts |-> [T |-> 0, P |-> 0, C |-> 0],
                sequence |-> <<>>, allSolutions |-> <<>>]
  /\ pc' = "done"
  /\ UNCHANGED <<n, dp, time, bIdx, i, allSolutions, seenCounts>>

\* Lines 130-135: the collection pass starts.
MaxDone ==
  /\ pc = "max"
  /\ i > n
  /\ maxProfit >= 0
  /\ allSolutions' = <<>>
  /\ seenCounts' = {}
  /\ i' = 0
  /\ pc' = "collect"
  /\ UNCHANGED <<n, dp, time, bIdx, maxProfit, result>>

\* Lines 136-150: whether the entry at finish time k is collected.
qualifies(table, best, horizon, k) ==
  /\ table[k].profit = best
  /\ Len(table[k].sequence) > 0
  /\ ~(k = horizon /\ hasOtherSolutions(table, best, horizon))

\* Lines 135-165: one iteration of the collection pass.
CollectStep ==
  /\ pc = "collect"
  /\ i <= n
  /\ LET counts == countBuildings(dp[i].sequence)
         key == countsKey(counts)
     IN IF qualifies(dp, maxProfit, n, i) /\ key \notin seenCounts
          THEN /\ seenCounts' = seenCounts \cup {key}
               /\ allSolutions' = Append(allSolutions,
                    [counts |-> counts, sequence |-> dp[i].sequence,
                     finishTime |-> i])
          ELSE UNCHANGED <<seenCounts, allSolutions>>
  /\ i' = i + 1
  /\ UNCHANGED <<n, pc, dp, time, bIdx, maxProfit, result>>

\* Lines 167-185: sort, pick the first solution, return.
SortReturn ==
  /\ pc = "collect"
  /\ i > n
  /\ LET sorted == sort(allSolutions, n)
         bestSolution ==
           IF Len(sorted) > 0
             THEN sorted[1]
             ELSE [counts |-> [T |-> 0, P |-> 0, C |-> 0], sequence |-> <<>>]
     IN /\ allSolutions' = sorted
        /\ result' = [kind |-> "result", profit |-> maxProfit,
                      counts |-> bestSolution.counts,
                      sequence |-> bestSolution.sequence,
                      allSolutions |-> [k \in 1..Len(sorted) |-> sorted[k].counts]]
  /\ pc' = "done"
  /\ UNCHANGED <<n, dp, time, bIdx, maxProfit, i, seenCounts>>

Next ==
  \/ AllocThrow
  \/ Alloc
  \/ DPSkip
  \/ DPStep
  \/ DPDone
  \/ MaxStep
  \/ ReturnEmpty
  \/ MaxDone
  \/ CollectStep
  \/ SortReturn

Spec == Init /\ [][Next]_vars

\* The documented scenarios: non-negative horizons only.
ScenarioInit == InitWith(ScenarioHorizons)

ScenarioNext ==
  \/ Alloc
  \/ DPSkip
  \/ DPStep
  \/ DPDone
  \/ MaxStep
  \/ MaxDone
  \/ CollectStep
  \/ SortReturn

SpecScenarios == ScenarioInit /\ [][ScenarioNext]_vars

-----------------------------------------------------------------------------
(* The exhaustive oracle: every sequence of catalog buildings that fits *)

Catalog == {buildings[k] : k \in 1..Len(buildings)}

ShortestBuild == BUILDING_TYPES.PUB.time

SeqsUpTo(len) == UNION {[1..m -> Catalog] : m \in 0..len}

RECURSIVE Duration(_)
Duration(s) == IF s = <<>> THEN 0 ELSE Head(s).time + Duration(Tail(s))

\* Sum over the buildings of (horizon - finishTime_i) * earnings_i, the finish
\* times being the cumulative durations.
RECURSIVE SeqProfitFrom(_, _, _)
SeqProfitFrom(s, horizon, elapsed) ==
  IF s = <<>> THEN 0
  ELSE (horizon - (elapsed + Head(s).time)) * Head(s).earnings
       + SeqProfitFrom(Tail(s), horizon, elapsed + Head(s).time)

SeqProfit(s, horizon) == SeqProfitFrom(s, horizon, 0)

Feasible(horizon) ==
  {s \in SeqsUpTo(horizon \div ShortestBuild) : Duration(s) <= horizon}

SetMax(S) == CHOOSE x \in S : \A y \in S : y <= x

Range(f) == {f[k] : k \in DOMAIN f}

TrueOptimum(horizon) == SetMax({SeqProfit(s, horizon) : s \in Feasible(horizon)})

\* The optimal sequences that end strictly before the horizon.
OptimalBefore(horizon) ==
  {s \in Feasible(horizon) :
     Duration(s) < horizon /\ SeqProfit(s, horizon) = TrueOptimum(horizon)}

-----------------------------------------------------------------------------
(* Claims *)

\* C1: for every horizon n >= 0 the returned profit is the true optimum, the
\* maximum of the sum of (n - finishTime_i) * earnings_i over every sequence
\* of buildings whose total duration is at most n (the empty one included).
C1_ProfitIsTrueOptimum ==
  (pc = "done" /\ n >= 0) => result.profit = TrueOptimum(n)

C1_Witness ==
  /\ pc = "done"
  /\ n >= 10
  /\ Len(result.sequence) >= 2
  /\ result.profit = TrueOptimum(n)

\* C2: the documented scenarios: n=7 gives T:1 and 3000, n=8 gives T:1 and
\* 4500, n=13 gives T:2 and 16500, n=49 gives T:8 P:2 and 324000, n=0 and n=3
\* give the empty counts and profit 0.
C2_Expected ==
  [h \in ScenarioHorizons |->
     CASE h = 7  -> [counts |-> [T |-> 1, P |-> 0, C |-> 0], profit |-> 3000]
       [] h = 8  -> [counts |-> [T |-> 1, P |-> 0, C |-> 0], profit |-> 4500]
       [] h = 13 -> [counts |-> [T |-> 2, P |-> 0, C |-> 0], profit |-> 16500]
       [] h = 49 -> [counts |-> [T |-> 8, P |-> 2, C |-> 0], profit |-> 324000]
       [] OTHER  -> [counts |-> [T |-> 0, P |-> 0, C |-> 0], profit |-> 0]]

C2_Scenarios ==
  (pc = "done" /\ n \in ScenarioHorizons) =>
     /\ result.counts = C2_Expected[n].counts
     /\ result.profit = C2_Expected[n].profit

C2_Witness ==
  /\ pc = "done"
  /\ n = 49
  /\ result.counts.T = 8
  /\ result.counts.P = 2

\* C3: degenerate-finish exclusion: if some sequence that ends strictly before
\* n (the empty one counts) achieves the maximum profit, the returned sequence
\* does not end exactly at n.
C3_DegenerateFinishExcluded ==
  (pc = "done" /\ n >= 0 /\ OptimalBefore(n) # {}) =>
     Duration(result.sequence) # n

\* C4: when the returned sequence ends at t < n, no finish time strictly
\* between t and n holds the maximum profit.
C4_LargestFinishTimeBelowHorizon ==
  (pc = "done" /\ n >= 0 /\ Duration(result.sequence) < n) =>
     \A later \in (Duration(result.sequence) + 1)..(n - 1) :
        dp[later].profit # result.profit

C4_Witness ==
  /\ pc = "done"
  /\ Duration(result.sequence) < n
  /\ \E earlier \in 1..(Duration(result.sequence) - 1) :
        dp[earlier].profit = result.profit

\* C5: a call with a negative horizon ends in an error and returns no result.
C5_NegativeHorizonFails ==
  n < 0 => (pc # "done" /\ result = NoResult)

\* C6: round trip: at every point of the DP loop and after it, each reached
\* entry dp[t] holds a sequence whose durations sum to t (at most n) and whose
\* recomputed profit is dp[t].profit; the returned sequence recomputes to the
\* returned profit.
C6_RoundTrip ==
  (n >= 0 /\ pc \notin {"start", "error"}) =>
     /\ \A t \in DOMAIN dp :
          dp[t].profit >= 0 =>
             /\ Duration(dp[t].sequence) = t
             /\ t <= n
             /\ calculateProfit(dp[t].sequence, n) = dp[t].profit
     /\ pc = "done" =>
          /\ Duration(result.sequence) <= n
          /\ calculateProfit(result.sequence, n) = result.profit

C6_Witness ==
  /\ pc = "dp"
  /\ time <= n
  /\ \E t \in DOMAIN dp :
       /\ Len(dp[t].sequence) >= 3
       /\ dp[t].profit > 0
       /\ calculateProfit(dp[t].sequence, n) = dp[t].profit

\* C7: the returned allSolutions is exactly the set of count-profiles stored
\* at the finish times whose profit is the maximum (t = 0 with the empty
\* profile included), t = n left out when some t < n also holds the maximum,
\* and no profile is listed twice.
C7_ClaimedProfiles ==
  LET optimal == {t \in 0..n : dp[t].profit = result.profit}
      kept == IF \E t \in optimal : t < n THEN optimal \ {n} ELSE optimal
  IN {countBuildings(dp[t].sequence) : t \in kept}

C7_AllSolutionsExact ==
  (pc = "done" /\ n >= 0) =>
     /\ Range(result.allSolutions) = C7_ClaimedProfiles
     /\ \A a, b \in DOMAIN result.allSolutions :
          a # b => result.allSolutions[a] # result.allSolutions[b]

\* C8: when the DP loop has finished, dp[t].profit is the maximum profit over
\* the sequences whose durations sum to exactly t when there is one, and the
\* sentinel -1 otherwise; reached profits are never negative.
C8_TableIsExactOptimum ==
  (pc = "max" /\ i = 0 /\ n >= 0) =>
     \A t \in 0..n :
        LET exact == {s \in Feasible(n) : Duration(s) = t}
        IN IF exact # {}
             THEN /\ dp[t].profit = SetMax({SeqProfit(s, n) : s \in exact})
                  /\ dp[t].profit >= 0
             ELSE dp[t].profit = -1

C8_Witness ==
  /\ pc = "max"
  /\ i = 0
  /\ n >= 10
  /\ \E t \in 0..n : dp[t].profit = -1
  /\ \E t \in 0..n : Len(dp[t].sequence) >= 2 /\ dp[t].profit > 0

\* C9: in every DP step an entry is replaced only if it is unknown or the
\* candidate is strictly greater; an equal candidate leaves it alone; a
\* reached entry's profit never decreases and its sequence changes only when
\* its profit strictly increases.
C9_StepKeepsOrImproves ==
  (pc = "dp" /\ time <= n /\ dp[time].profit >= 0) =>
     /\ LET building == buildings[bIdx]
            finishTime == time + building.time
            candidate == dp[time].profit + (n - finishTime) * building.earnings
        IN finishTime <= n =>
             /\ dp'[finishTime] # dp[finishTime] =>
                  (dp[finishTime].profit < 0 \/ candidate > dp[finishTime].profit)
             /\ candidate = dp[finishTime].profit => dp'[finishTime] = dp[finishTime]
     /\ \A t \in DOMAIN dp :
          dp[t].profit >= 0 =>
             /\ dp'[t].profit >= dp[t].profit
             /\ dp'[t].sequence # dp[t].sequence => dp'[t].profit > dp[t].profit

C10_NoOptimalProfileLost ==
  (pc = "done" /\ n >= 0 /\ result.profit > 0) =>
     /\ \A s \in OptimalBefore(n) :
          countBuildings(s) \in Range(result.allSolutions)
     /\ \A s1, s2 \in OptimalBefore(n) :
          Duration(s1) = Duration(s2) => countBuildings(s1) = countBuildings(s2)
     /\ Len(result.allSolutions)
          = Cardinality({k \in 0..n : qualifies(dp, maxProfit, n, k)})

C10_Witness ==
  /\ pc = "done"
  /\ result.profit > 0
  /\ Len(result.allSolutions) = 2
  /\ Cardinality(OptimalBefore(n)) >= 2

====
